---- MODULE Spec2Model ----
(***************************************************************************)
(* A2ADemo: the orchestrating Assistant Agent (AssistantAgentExecutor),    *)
(* the specialist agents it delegates to, and the chat front-end that      *)
(* drains its event stream.                                                *)
(*                                                                         *)
(* One orchestrator process is modelled: the constructor has run (the      *)
(* agent-card fetches are in flight), and execute() calls ("turns") arrive *)
(* and interleave at their awaits.  Everything outside the repository (the *)
(* classification/completion endpoint, the network, the SDK transport) is  *)
(* a nondeterministic choice over the outcomes it can produce.             *)
(*                                                                         *)
(* Spec and SpecSingle run the orchestrator; SpecGraphQL runs the GraphQL  *)
(* Tool Agent alone, message after message; SpecSpecialists runs execute   *)
(* and cancelTask of each specialist; SpecFrontend and SpecFrontendSingle  *)
(* run the ChatController of the page, with two calls in flight or one.    *)
(***************************************************************************)
EXTENDS Integers, Sequences, FiniteSets, TLC

\* Number of execute() calls the orchestrator receives in one run.
MaxTurns == 2

Turns == 1..MaxTurns

----------------------------------------------------------------------------
(* Strings.  TLC cannot look inside a string, so the few strings whose     *)
(* characters the code inspects are spelled out here.                      *)

Chars(s) ==
  CASE s = "Calculator Agent"            -> <<"C","a","l","c","u","l","a","t","o","r"," ","A","g","e","n","t">>
    [] s = "GraphQL Tool Agent"          -> <<"G","r","a","p","h","Q","L"," ","T","o","o","l"," ","A","g","e","n","t">>
    [] s = "Weather Agent"               -> <<"W","e","a","t","h","e","r"," ","A","g","e","n","t">>
    [] s = "weather"                     -> <<"w","e","a","t","h","e","r">>
    [] s = "calculator"                  -> <<"c","a","l","c","u","l","a","t","o","r">>
    [] s = "graphql"                     -> <<"g","r","a","p","h","q","l">>
    [] s = "general"                     -> <<"g","e","n","e","r","a","l">>
    [] s = "sql"                         -> <<"s","q","l">>
    [] s = "Calculate 25 * 4 + 16"       -> <<"C","a","l","c","u","l","a","t","e"," ","2","5"," ","*"," ","4"," ","+"," ","1","6">>
    [] s = "query { allSites { name } }" -> <<"q","u","e","r","y"," ","{"," ","a","l","l","S","i","t","e","s"," ","{"," ","n","a","m","e"," ","}"," ","}">>
    [] s = "export csv"                  -> <<"e","x","p","o","r","t"," ","c","s","v">>
    [] s = "{ site(name: \"Alpha\") { name production } }" -> <<"{"," ","s","i","t","e","(","n","a","m","e",":"," ","\"","A","l","p","h","a","\"",")"," ","{"," ","n","a","m","e"," ","p","r","o","d","u","c","t","i","o","n"," ","}"," ","}">>
    [] s = "stop, do not proceed"        -> <<"s","t","o","p",","," ","d","o"," ","n","o","t"," ","p","r","o","c","e","e","d">>
    [] s = "25 * 4 + 16"                 -> <<"2","5"," ","*"," ","4"," ","+"," ","1","6">>
    [] s = "yes"                         -> <<"y","e","s">>
    [] s = "y"                           -> <<"y">>
    [] s = "ok"                          -> <<"o","k">>
    [] s = "no"                          -> <<"n","o">>
    [] s = "n"                           -> <<"n">>
    [] s = "maybe"                       -> <<"m","a","y","b","e">>
    [] s = "query"                       -> <<"q","u","e","r","y">>
    [] s = "{"                           -> <<"{">>
    [] s = "chart"                       -> <<"c","h","a","r","t">>
    [] s = "graph"                       -> <<"g","r","a","p","h">>
    [] s = "csv"                         -> <<"c","s","v">>
    [] s = "file"                        -> <<"f","i","l","e">>
    [] s = "download"                    -> <<"d","o","w","n","l","o","a","d">>
    [] s = "alpha"                       -> <<"a","l","p","h","a">>
    [] s = "beta"                        -> <<"b","e","t","a">>
    [] s = "gamma"                       -> <<"g","a","m","m","a">>
    [] s = "approve"                     -> <<"a","p","p","r","o","v","e">>
    [] s = "proceed"                     -> <<"p","r","o","c","e","e","d">>
    [] s = "cancel"                      -> <<"c","a","n","c","e","l">>
    [] s = "stop"                        -> <<"s","t","o","p">>
    [] s = "export"                      -> <<"e","x","p","o","r","t">>
    [] s = "visualize"                   -> <<"v","i","s","u","a","l","i","z","e">>
    [] s = "plot"                        -> <<"p","l","o","t">>
    [] OTHER -> <<>>

\* The lower-case form of one character.
LowerChar(c) ==
  CASE c = "A" -> "a" [] c = "C" -> "c" [] c = "G" -> "g" [] c = "L" -> "l"
    [] c = "Q" -> "q" [] c = "S" -> "s" [] c = "T" -> "t" [] c = "W" -> "w"
    [] OTHER -> c

\* String.prototype.toLowerCase, on a character sequence.
toLowerCase(cs) == [ i \in 1..Len(cs) |-> LowerChar(cs[i]) ]

\* String.prototype.includes: needle occurs as a contiguous run of hay.
includes(hay, needle) ==
  \E i \in 0..(Len(hay) - Len(needle)) :
    \A j \in 1..Len(needle) : hay[i + j] = needle[j]

\* String.prototype.startsWith.
startsWith(hay, needle) ==
  /\ Len(needle) <= Len(hay)
  /\ \A j \in 1..Len(needle) : hay[j] = needle[j]

\* Array.prototype.join("") of the text of every part.
RECURSIVE JoinParts(_)
JoinParts(parts) ==
  IF parts = <<>> THEN "" ELSE Head(parts) \o JoinParts(Tail(parts))

----------------------------------------------------------------------------
(* Agent cards, as served at <url>/.well-known/agent.json.                 *)

calculatorAgentCard ==
  [ name               |-> "Calculator Agent",
    skills             |-> <<"calculator">>,
    defaultOutputModes |-> <<"text/plain">> ]

graphQLAgentCard ==
  [ name               |-> "GraphQL Tool Agent",
    skills             |-> <<"compressor_data_query", "chart_output",
                             "data_file_export", "data_analysis">>,
    defaultOutputModes |-> <<"text/plain", "text/markdown", "application/json">> ]

\* A JSON body that is no agent card (an error object): res.json() succeeds
\* on it, and it has neither name nor skills.
NoCard == [ error |-> "Not Found" ]

CalculatorUrl == "http://localhost:41233"
GraphQLUrl    == "http://localhost:41234"

\* process.env.AGENT_URLS, split and trimmed.
AGENT_URLS == <<CalculatorUrl, GraphQLUrl>>

Urls == { AGENT_URLS[i] : i \in 1..Len(AGENT_URLS) }

\* The card the agent listening at url serves.
CardAt(url) ==
  IF url = CalculatorUrl THEN calculatorAgentCard ELSE graphQLAgentCard

\* What `await fetch(url/.well-known/agent.json)` then `await res.json()`
\* can do: deliver the card, deliver some other JSON body (fetch does not
\* reject on a non-2xx status), or throw (network error, body not JSON).
FetchOutcomes == {"card", "other-json", "throws"}

----------------------------------------------------------------------------
(* Events on an event bus / an SSE stream.                                 *)

Ev(kind, taskId, contextId, state, final, parts, artifactId) ==
  [ kind |-> kind, taskId |-> taskId, contextId |-> contextId,
    state |-> state, final |-> final, parts |-> parts,
    artifactId |-> artifactId, citations |-> <<>> ]

\* The event with citations (their labels) on its message or artifact.
Cited(ev, labels) == [ ev EXCEPT !.citations = labels ]

TaskEv(taskId, contextId) ==
  Ev("task", taskId, contextId, "submitted", FALSE, <<>>, "")

StatusEv(taskId, contextId, state, final, parts) ==
  Ev("status-update", taskId, contextId, state, final, parts, "")

ArtifactEv(taskId, contextId, artifactId) ==
  Ev("artifact-update", taskId, contextId, "", FALSE, <<>>, artifactId)

\* The texts a user sends.
Texts == { "Calculate 25 * 4 + 16", "query { allSites { name } }",
           "export csv", "yes" }

----------------------------------------------------------------------------
(* Calculator Agent (CalculatorAgentExecutor.execute).                     *)

\* The characters of /[0-9+\-*/().^ %]/.
ExprChars == { "0","1","2","3","4","5","6","7","8","9",
               "+","-","*","/","(",")",".","^"," ","%" }

RECURSIVE KeepExprChars(_)
KeepExprChars(cs) ==
  IF cs = <<>> THEN <<>>
  ELSE IF Head(cs) \in ExprChars
       THEN <<Head(cs)>> \o KeepExprChars(Tail(cs))
       ELSE KeepExprChars(Tail(cs))

\* rawText.match(/[0-9+\-*/().^ %]+/g).join(''), "" when nothing matches.
ExtractExpr(rawText) == JoinParts(KeepExprChars(Chars(rawText)))

\* Function(`"use strict"; return (${jsExpr});`)() on the expressions the
\* texts of the model yield: a value, or the SyntaxError's message.
Evaluate(expr) ==
  IF expr \in {" 25 * 4 + 16", "25 * 4 + 16"}
  THEN [ ok |-> TRUE,  text |-> "116" ]
  ELSE [ ok |-> FALSE, text |-> "Unexpected token ')'" ]

CalculatorResultText(rawText) ==
  LET expr == ExtractExpr(rawText)
  IN  IF expr = "" THEN "Error: No valid expression found in input."
      ELSE IF Evaluate(expr).ok
           THEN expr \o " = " \o Evaluate(expr).text
           ELSE "Error: " \o Evaluate(expr).text

\* The events one execute() call publishes, and whether it ends them with
\* eventBus.finished().
CalculatorRun(rawText, taskId, contextId, isNew, isCancelled) ==
  [ events |->
      (IF isNew THEN <<TaskEv(taskId, contextId)>> ELSE <<>>)
      \o <<StatusEv(taskId, contextId, "working", FALSE, <<"Crunching numbers...">>)>>
      \o (IF isCancelled
          THEN <<StatusEv(taskId, contextId, "cancelled", TRUE, <<"(calculation cancelled)">>)>>
          ELSE <<StatusEv(taskId, contextId, "completed", TRUE, <<CalculatorResultText(rawText)>>)>>),
    ended |-> "finished" ]

----------------------------------------------------------------------------
(* GraphQL Tool Agent (GraphQLAgentExecutor.execute), a call on a task     *)
(* with no pending confirmation.                                           *)

GraphQLIntent(userText) ==
  LET cs    == Chars(userText)
      lower == toLowerCase(cs)
  IN  IF startsWith(lower, Chars("query")) \/ startsWith(cs, Chars("{"))
        THEN "compressor_data_query"
      ELSE IF includes(lower, Chars("chart")) \/ includes(lower, Chars("graph"))
        THEN "chart_output"
      ELSE IF \/ includes(lower, Chars("csv")) \/ includes(lower, Chars("file"))
              \/ includes(lower, Chars("download"))
        THEN "data_file_export"
      ELSE IF \/ includes(lower, Chars("alpha")) \/ includes(lower, Chars("beta"))
              \/ includes(lower, Chars("gamma"))
        THEN "compressor_data_query"
      ELSE "data_analysis"

\* The data of the agent: mockSites, an array of three sites; and the
\* value of lastResultData before any query has run.
mockSites == [ shape |-> "array", rows |-> 3,
               fields |-> <<"name", "location", "production">> ]
NoData    == [ shape |-> "none", rows |-> 0, fields |-> <<>> ]

\* The query the agent runs when the text is not taken as the source.
DefaultQuery == "query { allSites { name location production } }"

\* A query for one site, written without the keyword.
SiteQuery == "{ site(name: \"Alpha\") { name production } }"

\* `userText.startsWith("{") ? userText : DefaultQuery`.
SourceFor(userText) ==
  IF startsWith(Chars(userText), Chars("{")) THEN userText ELSE DefaultQuery

\* graphql({ schema, source, rootValue }) on mockSites, then
\* `result.data.allSites ?? result.data.site ?? result.data`.
QueryData(source) ==
  CASE source = SiteQuery ->
         [ shape |-> "object", rows |-> 1, fields |-> <<"name", "production">> ]
    [] source = "query { allSites { name } }" ->
         [ shape |-> "array", rows |-> 3, fields |-> <<"name">> ]
    [] OTHER -> mockSites

\* JSON.stringify of the result of the default query.
ResultJson == "{ data: { allSites: [Alpha, Beta, Gamma] } }"

\* JSON.stringify of the result of running source.
ResultJsonOf(source) ==
  CASE source = SiteQuery -> "{ data: { site: { name: Alpha, production: 12345.6 } } }"
    [] source = "query { allSites { name } }" ->
         "{ data: { allSites: [{ name: Alpha }, { name: Beta }, { name: Gamma }] } }"
    [] OTHER -> ResultJson

\* The event with text as the one part of its artifact or message.
WithText(ev, text) == [ ev EXCEPT !.parts = <<text>> ]

\* What the analysis completion call can do.
LlmOutcomes == {"ok", "fails"}

\* The chart branch on data: `data.map` exists on an array only; on an
\* object the TypeError lands in the catch of execute.
ChartEvents(data, taskId, contextId) ==
  IF data.shape = "array"
  THEN <<Cited(ArtifactEv(taskId, contextId, "chart-data"),
               <<"Dataset: mockSites", "Skill: chart_output">>),
         Cited(StatusEv(taskId, contextId, "completed", TRUE,
                        <<"Chart generated from the data.">>),
               <<"Chart.js docs">>)>>
  ELSE <<StatusEv(taskId, contextId, "completed", TRUE,
                  <<"**Error:** data.map is not a function">>)>>

\* `lastResultData || mockSites`.
DataOr(lastResultData) ==
  IF lastResultData # NoData THEN lastResultData ELSE mockSites

\* `Array.isArray(data) ? data : [data]`.
AsArray(data) == [ data EXCEPT !.shape = "array" ]

\* execute on a task with no pending confirmation, in a context whose
\* memory holds lastResultData, once the intent and the query source are
\* known: the events, how the call ends, the memory afterwards and the
\* data array kept for a confirmation.
GraphQLBranches(gqlIntent, source, taskId, contextId, isNew, llm, lastResultData) ==
  LET opening ==
        (IF isNew THEN <<TaskEv(taskId, contextId)>> ELSE <<>>)
        \o <<StatusEv(taskId, contextId, "working", FALSE, <<>>)>>
      data    == DataOr(lastResultData)
      rows    == IF data.shape = "array" THEN data.rows ELSE 1
  IN  CASE gqlIntent = "compressor_data_query" ->
             [ events |-> opening
                 \o <<Cited(WithText(ArtifactEv(taskId, contextId, "result-json"),
                                     ResultJsonOf(source)),
                            <<"Dataset: mockSites", "Skill: compressor_data_query">>),
                      Cited(StatusEv(taskId, contextId, "completed", TRUE,
                                     <<ResultJsonOf(source)>>),
                            <<"GraphQL spec (query language)">>)>>,
               ended |-> "finished",
               lastResultData |-> QueryData(source),
               dataArray |-> NoData ]
        [] gqlIntent = "chart_output" ->
             [ events |-> opening \o ChartEvents(data, taskId, contextId),
               ended |-> "finished",
               lastResultData |-> lastResultData,
               dataArray |-> NoData ]
        [] gqlIntent = "data_file_export" ->
             \* the confirmation prompt; the call returns without finished()
             [ events |-> opening
                 \o <<Cited(StatusEv(taskId, contextId, "input-required", FALSE,
                                 <<"About to export " \o ToString(rows)
                                   \o " row(s) to CSV. Proceed? (yes/no)">>),
                            <<"Skill: data_file_export">>)>>,
               ended |-> "open",
               lastResultData |-> lastResultData,
               dataArray |-> AsArray(data) ]
        [] OTHER ->
             [ events |-> opening
                 \o <<IF llm = "ok"
                      THEN Cited(StatusEv(taskId, contextId, "completed", TRUE,
                                          <<"Gamma has the highest production.">>),
                                 <<"Dataset: mockSites", "LLM (Azure OpenAI)">>)
                      ELSE StatusEv(taskId, contextId, "completed", TRUE,
                                    <<"**Error:** Azure OpenAI 500: upstream">>)>>,
               ended |-> "finished",
               lastResultData |-> lastResultData,
               dataArray |-> NoData ]

\* execute on a task with no pending confirmation, from the text.
GraphQLRunOn(userText, taskId, contextId, isNew, llm, lastResultData) ==
  GraphQLBranches(GraphQLIntent(userText), SourceFor(userText),
                  taskId, contextId, isNew, llm, lastResultData)

\* The same in a context the agent has not seen before.
GraphQLRun(userText, taskId, contextId, isNew, llm) ==
  GraphQLRunOn(userText, taskId, contextId, isNew, llm, NoData)

\* The stream client.sendMessageStream(params) yields for the agent behind
\* the card.
SpecialistRun(card, text, taskId, contextId, llm) ==
  IF card.name = calculatorAgentCard.name
  THEN CalculatorRun(text, taskId, contextId, TRUE, FALSE)
  ELSE GraphQLRun(text, taskId, contextId, TRUE, llm)

NoStream == [ events |-> <<>>, ended |-> "none" ]

----------------------------------------------------------------------------
(* The chat front-end draining one stream (ChatController.sendMessage).    *)

\* The bubbles one stream turn adds: the loop stops after the first event
\* with final:true; the first input-required status adds the HITL prompt
\* bubble; completed text adds the final assistant bubble.
RECURSIVE DrainStream(_, _)
DrainStream(events, acc) ==
  IF events = <<>> THEN acc
  ELSE LET ev == Head(events)
           isStatus == ev.kind = "status-update"
           next ==
             [ hitl |-> IF isStatus /\ ev.state = "input-required" /\ acc.hitl = 0
                        THEN 1 ELSE acc.hitl,
               sawInputReq |-> acc.sawInputReq
                               \/ (isStatus /\ ev.state = "input-required"),
               finalMsgHtml |-> IF isStatus /\ ev.state = "completed" /\ Len(ev.parts) > 0
                                THEN acc.finalMsgHtml \o JoinParts(ev.parts)
                                ELSE acc.finalMsgHtml ]
       IN  IF ev.final THEN next ELSE DrainStream(Tail(events), next)

Bubbles(events) ==
  LET r == DrainStream(events, [ hitl |-> 0, sawInputReq |-> FALSE, finalMsgHtml |-> "" ])
  IN  [ hitl |-> r.hitl,
        final |-> IF r.finalMsgHtml # "" THEN 1 ELSE 0,
        hitlPending |-> r.sawInputReq ]

\* The ChatController files: part_003 and app.js keep a continuation
\* anchor, part_003 also shows the HITL prompt; part_002 is the earlier
\* controller.
Frontends == {"part_003", "app.js", "part_002"}

MaxCalls == 2
MaxSends == 2
MaxEvents == 3

\* The sendMessage calls that can be in flight together.
Calls == 1..MaxCalls

\* $scope.hitlPending = null; also a message that names no task.
NoIds == [ taskId |-> "", contextId |-> "" ]

\* A sendMessage call: the ids its message carries, its locals, the events
\* its loop has processed and the bubbles it has pushed.
IdleCall ==
  [ phase            |-> "idle",   \* idle, streaming, done
    n                |-> 0,        \* which send it is
    attached         |-> NoIds,    \* message.taskId, message.contextId
    taskId           |-> "",       \* the task the server runs the message on
    sawInputReq      |-> FALSE,
    postedHitlBubble |-> FALSE,
    finalMsgHtml     |-> "",
    seen             |-> <<>>,     \* events the loop body has processed
    bubbles          |-> <<>>,     \* kinds of the bubbles pushed
    threw            |-> FALSE,    \* the catch block ran
    hitlCancelled    |-> FALSE ]   \* cancelHitl ran since its last prompt

----------------------------------------------------------------------------
(* The orchestrator: AssistantAgentExecutor.                               *)

VARIABLES
  tools,       \* this.tools: the registry, in push order
  settled,     \* agent URLs whose _initTools callback has run to its end
  cancelled,   \* this.cancelled
  store,       \* task ids the SDK's task store holds (context.task is set)
  awaiting,    \* the GraphQL agent's this.awaiting: tasks with a pending prompt
  pc,          \* per turn: where execute() stands
  req,         \* per turn: the request context (taskId, contextId, task, text)
  intent,      \* per turn: the local `intent`
  stream,      \* per turn: the specialist's SSE stream being drained
  buf,         \* per turn: `buf` of _streamAgentResponse
  bus,         \* per turn: the events published on eventBus, in order
  finished,    \* per turn: eventBus.finished() was called
  hist,        \* per turn: the calls made and the specialist events consumed
  gcalls,      \* the GraphQL agent's execute calls so far, with their events
  memoryByContext, \* the GraphQL agent's lastResultData per contextId
  awaitingData,    \* this.awaiting[taskId].dataArray per task
  runs,            \* the execute calls of the specialists run on their own
  cancelledTasks,  \* per specialist: this.cancelledTasks
  frontend,    \* which ChatController the page runs
  hitlPending, \* $scope.hitlPending
  calls,       \* per sendMessage call in flight: its locals and its bubbles
  sends        \* sendMessage calls started so far

\* The variables of the chat front-end.
uiVars == << frontend, hitlPending, calls, sends >>

\* What the GraphQL agent keeps besides this.awaiting's keys.
gqlVars == << gcalls, memoryByContext, awaitingData >>

\* The specialists run on their own.
spVars == << runs, cancelledTasks >>

vars == << tools, settled, cancelled, store, awaiting,
           pc, req, intent, stream, buf, bus, finished, hist,
           gqlVars, spVars, uiVars >>

\* The id the SDK generates for a message that names no task.
NewTaskId(t) == "task-" \o ToString(t)

\* The context the SDK gives a task.
ContextOf(taskId) == "ctx-" \o taskId

\* The id the specialist's SDK generates for the delegated message of turn
\* t, which names no task.
ToolTaskId(t) == "tool-task-" \o ToString(t)

NoReq == [ taskId |-> "", contextId |-> "", existing |-> FALSE, text |-> "" ]

NoHist ==
  [ cls      |-> 0,       \* classification calls issued
    clsEnd   |-> "none",  \* how the classification call ended
    gen      |-> 0,       \* completion calls issued
    genEnd   |-> "none",  \* how the completion call ended
    sent     |-> <<>>,    \* delegated calls: label, the task and context named
    seen     |-> <<>>,    \* specialist events the stream loop consumed
    loopEnd  |-> "none" ] \* how the stream loop ended: final, done, error

Ended(t) == pc[t] \in {"done", "rejected"}

\* The specialist processes: the calculator of part_001, the calculator of
\* part_002, the weather agent and the GraphQL agent; and those of them
\* whose execute reads this.cancelledTasks.
Specialists == {"calculator", "calculator_002", "weather", "graphql"}
Cancellable == {"calculator", "calculator_002", "weather"}

\* The tasks the GraphQL agent's messages name, and their contexts.
GraphQLTasks    == { ToolTaskId(t) : t \in Turns }
GraphQLContexts == { ContextOf(taskId) : taskId \in GraphQLTasks }

\* The constructor has run: the registry is empty and _initTools has
\* issued one card fetch per agent URL.
Constructed ==
  /\ tools = <<>>
  /\ settled = {}
  /\ cancelled = {}
  /\ store = {}
  /\ awaiting = {}
  /\ pc = [ t \in Turns |-> "idle" ]
  /\ req = [ t \in Turns |-> NoReq ]
  /\ intent = [ t \in Turns |-> "" ]
  /\ stream = [ t \in Turns |-> NoStream ]
  /\ buf = [ t \in Turns |-> "" ]
  /\ bus = [ t \in Turns |-> <<>> ]
  /\ finished = [ t \in Turns |-> FALSE ]
  /\ hist = [ t \in Turns |-> NoHist ]
  /\ gcalls = <<>>
  /\ memoryByContext = [ c \in GraphQLContexts |-> NoData ]
  /\ awaitingData = [ taskId \in GraphQLTasks |-> NoData ]
  /\ runs = <<>>
  /\ cancelledTasks = [ agent \in Cancellable |-> {} ]

\* The controller has run: no bubble, no call, no continuation anchor.
PageLoaded ==
  /\ hitlPending = NoIds
  /\ calls = [ c \in Calls |-> IdleCall ]
  /\ sends = 0

Init ==
  /\ Constructed
  /\ PageLoaded
  /\ frontend = "part_003"

\* One callback of _initTools' Promise.all runs to its end.
FetchCard(url) ==
  /\ url \notin settled
  /\ \E outcome \in FetchOutcomes :
       tools' = CASE outcome = "card" ->
                       Append(tools, [ url |-> url, card |-> CardAt(url) ])
                  [] outcome = "other-json" ->
                       Append(tools, [ url |-> url, card |-> NoCard ])
                  [] OTHER -> tools
  /\ settled' = settled \cup {url}
  /\ UNCHANGED << cancelled, store, awaiting, pc, req, intent, stream, buf,
                  bus, finished, hist >>
  /\ UNCHANGED << gqlVars, spVars, uiVars >>

\* execute() without `await this.initPromise`: the gate is always open.
InitGate_Unawaited == TRUE

\* this.initPromise is resolved.
InitGate == settled = Urls

\* cancelTask remembering only the task cancelled last.
cancelTask_OnlyLast(taskId) ==
  /\ taskId \in store
  /\ taskId \notin cancelled
  /\ cancelled' = {taskId}
  /\ UNCHANGED << tools, settled, store, awaiting, pc, req, intent, stream,
                  buf, bus, finished, hist >>
  /\ UNCHANGED << gqlVars, spVars, uiVars >>

cancelTask(taskId) ==
  /\ taskId \in store
  /\ taskId \notin cancelled
  /\ cancelled' = cancelled \cup {taskId}
  /\ UNCHANGED << tools, settled, store, awaiting, pc, req, intent, stream,
                  buf, bus, finished, hist >>
  /\ UNCHANGED << gqlVars, spVars, uiVars >>

\* The opening with the task event published whether or not the task exists.
OpeningEvents_AlwaysTask(r) ==
  <<TaskEv(r.taskId, r.contextId),
    StatusEv(r.taskId, r.contextId, "working", FALSE,
             <<"_Assistant is thinking..._">>)>>

\* 4a, 4b: the task event of a new task and the working update.
OpeningEvents(r) ==
  (IF r.existing THEN <<>> ELSE <<TaskEv(r.taskId, r.contextId)>>)
  \o <<StatusEv(r.taskId, r.contextId, "working", FALSE,
                <<"_Assistant is thinking..._">>)>>

\* 4a-4c for request r: the opening events are published and the
\* classification request is sent.
Opening(t, r) ==
  /\ bus' = [ bus EXCEPT ![t] = @ \o OpeningEvents(r) ]
  /\ store' = store \cup {r.taskId}
  /\ intent' = [ intent EXCEPT ![t] = "general" ]
  /\ pc' = [ pc EXCEPT ![t] = "classifying" ]

\* execute() is called.  With initPromise resolved the await resumes in the
\* same task and the turn runs on to the classification request; otherwise
\* it waits.
ExecuteStart(t) ==
  /\ pc[t] = "idle"
  /\ \A u \in Turns : u < t => pc[u] # "idle"
  /\ \E taskId \in store \cup {NewTaskId(t)}, text \in Texts :
       LET r == [ taskId |-> taskId, contextId |-> ContextOf(taskId),
                  existing |-> taskId \in store, text |-> text ]
       IN  /\ req' = [ req EXCEPT ![t] = r ]
           /\ IF InitGate
              THEN /\ Opening(t, r)
                   /\ hist' = [ hist EXCEPT ![t].cls = 1 ]
              ELSE /\ pc' = [ pc EXCEPT ![t] = "init" ]
                   /\ UNCHANGED << bus, store, intent, hist >>
  /\ UNCHANGED << tools, settled, cancelled, awaiting, stream, buf, finished >>
  /\ UNCHANGED << gqlVars, spVars, uiVars >>

\* initPromise resolves for a turn that waited on it.
ResumeAfterInit(t) ==
  /\ pc[t] = "init"
  /\ InitGate
  /\ Opening(t, req[t])
  /\ hist' = [ hist EXCEPT ![t].cls = 1 ]
  /\ UNCHANGED << tools, settled, cancelled, awaiting, req, stream, buf, finished >>
  /\ UNCHANGED << gqlVars, spVars, uiVars >>

\* What the classification call can do: answer with a label (one token of
\* the model's choosing), answer non-2xx, or fail.
ClsContents == {"weather", "calculator", "graphql", "general", "sql"}
ClsOutcomes == ClsContents \cup {"non-2xx", "throws"}

\* The intent left unset until a label arrives (no "general" default).
Classified_NoDefault(outcome) ==
  IF outcome \in ClsContents THEN outcome ELSE ""

\* 4c: the intent after the classification call.
Classified(outcome) ==
  IF outcome \in ClsContents THEN outcome ELSE "general"

DelegatingIntents == {"weather", "calculator", "graphql"}

\* The predicate of this.tools.find.
Matches(card, i) ==
  \/ includes(toLowerCase(Chars(card.name)), Chars(i))
  \/ \E k \in 1..Len(card.skills) : card.skills[k] = i

\* this.tools.find from entry k on: the index found, 0 for undefined, -1
\* when the predicate throws a TypeError (the entry's card has no name).
RECURSIVE FindFrom(_, _, _)
FindFrom(reg, k, i) ==
  IF k > Len(reg) THEN 0
  ELSE IF "name" \notin DOMAIN reg[k].card THEN -1
  ELSE IF Matches(reg[k].card, i) THEN k
  ELSE FindFrom(reg, k + 1, i)

FindTool(reg, i) == FindFrom(reg, 1, i)

\* Routing that does not look at the cancelled set.
RoutingAllowed_Always(taskId) == TRUE

\* 4d: `!this.cancelled.has(taskId)`.
RoutingAllowed(taskId) == taskId \notin cancelled

\* 4e: `!answer && intent === "general"`.
FallbackToGeneral(answer, i) == answer = "" /\ i = "general"

\* The cancellation check looking the context id up instead of the task id.
CancellationCheck_ByContext(taskId) == ContextOf(taskId) \in cancelled

\* 4f: `this.cancelled.has(taskId)`.
CancellationCheck(taskId) == taskId \in cancelled

\* The terminal event built on the identifiers of the specialist's events
\* (re-publishing the specialist's own event) after a delegation.
TerminalEvent_SpecialistIds(t, answer) ==
  LET ids == IF hist[t].seen # <<>> THEN hist[t].seen[1] ELSE req[t]
  IN  IF CancellationCheck(req[t].taskId)
      THEN StatusEv(ids.taskId, ids.contextId, "cancelled", TRUE,
                    <<"_(Task cancelled)_">>)
      ELSE StatusEv(ids.taskId, ids.contextId, "completed", TRUE,
                    <<IF answer # "" THEN answer ELSE "*[No answer]*">>)

\* 4f, 4g: the event that ends the turn.
TerminalEvent(t, answer) ==
  IF CancellationCheck(req[t].taskId)
  THEN StatusEv(req[t].taskId, req[t].contextId, "cancelled", TRUE,
                <<"_(Task cancelled)_">>)
  ELSE StatusEv(req[t].taskId, req[t].contextId, "completed", TRUE,
                <<IF answer # "" THEN answer ELSE "*[No answer]*">>)

Finish(t, answer) ==
  /\ bus' = [ bus EXCEPT ![t] = Append(@, TerminalEvent(t, answer)) ]
  /\ finished' = [ finished EXCEPT ![t] = TRUE ]
  /\ pc' = [ pc EXCEPT ![t] = "done" ]

\* 4e onwards with the answer the routing left; h is the turn's record.
AfterRouting(t, answer, i, h) ==
  IF RoutingAllowed(req[t].taskId) /\ FallbackToGeneral(answer, i)
  THEN /\ pc' = [ pc EXCEPT ![t] = "answering" ]
       /\ hist' = [ hist EXCEPT ![t] = [ h EXCEPT !.gen = @ + 1 ] ]
       /\ UNCHANGED << bus, finished >>
  ELSE /\ Finish(t, answer)
       /\ hist' = [ hist EXCEPT ![t] = h ]

\* The params of the delegated call: a new message, no task, no context.
DelegatedCall(t, card) ==
  [ label |-> card.name, taskId |-> "", contextId |-> "", text |-> req[t].text ]

\* The classification call returns; 4d routes the turn.
ClassifyReturn(t) ==
  /\ pc[t] = "classifying"
  /\ \E outcome \in ClsOutcomes, llm \in LlmOutcomes :
       LET i     == Classified(outcome)
           found == IF RoutingAllowed(req[t].taskId) /\ i \in DelegatingIntents
                    THEN FindTool(tools, i) ELSE 0
           h     == [ hist[t] EXCEPT !.clsEnd = IF outcome \in ClsContents THEN "ok" ELSE outcome ]
       IN  /\ intent' = [ intent EXCEPT ![t] = i ]
           /\ IF found > 0
              THEN LET call == DelegatedCall(t, tools[found].card)
                       run  == SpecialistRun(tools[found].card, call.text,
                                 ToolTaskId(t), ContextOf(ToolTaskId(t)), llm)
                   IN  /\ stream' = [ stream EXCEPT ![t] =
                              [ label |-> call.label, events |-> run.events,
                                ended |-> run.ended ] ]
                       /\ awaiting' = IF run.ended = "open"
                                      THEN awaiting \cup {ToolTaskId(t)}
                                      ELSE awaiting
                       /\ hist' = [ hist EXCEPT ![t] = [ h EXCEPT !.sent = Append(@, call) ] ]
                       /\ pc' = [ pc EXCEPT ![t] = "streaming" ]
                       /\ UNCHANGED << bus, finished >>
              ELSE IF found < 0
              THEN /\ pc' = [ pc EXCEPT ![t] = "rejected" ]
                   /\ hist' = [ hist EXCEPT ![t] = h ]
                   /\ UNCHANGED << stream, awaiting, bus, finished >>
              ELSE /\ AfterRouting(t, "", i, h)
                   /\ UNCHANGED << stream, awaiting >>
  /\ UNCHANGED << tools, settled, cancelled, store, req, buf >>
  /\ UNCHANGED << gqlVars, spVars, uiVars >>

\* The value _streamAgentResponse returns for buf b under label.
LabelledAnswer(label, b) ==
  IF b # "" THEN "**" \o label \o ":** " \o b \o "\n\n" ELSE ""

\* _streamAgentResponse returns; execute goes on at 4e.
StreamReturn(t, b, h) ==
  /\ AfterRouting(t, LabelledAnswer(stream[t].label, b), intent[t], h)
  /\ stream' = [ stream EXCEPT ![t] = NoStream ]
  /\ buf' = [ buf EXCEPT ![t] = "" ]

\* One iteration of `for await (const ev of stream)`.
StreamNext(t) ==
  /\ pc[t] = "streaming"
  /\ stream[t].events # <<>>
  /\ LET ev    == Head(stream[t].events)
         takes == ev.kind = "status-update" /\ Len(ev.parts) > 0
         b     == IF takes THEN buf[t] \o JoinParts(ev.parts) ELSE buf[t]
         h     == [ hist[t] EXCEPT !.seen = Append(@, ev) ]
     IN  IF takes /\ ev.final
         THEN StreamReturn(t, b, [ h EXCEPT !.loopEnd = "final" ])
         ELSE /\ buf' = [ buf EXCEPT ![t] = b ]
              /\ stream' = [ stream EXCEPT ![t].events = Tail(@) ]
              /\ hist' = [ hist EXCEPT ![t] = h ]
              /\ UNCHANGED << pc, bus, finished >>
  /\ UNCHANGED << tools, settled, cancelled, store, awaiting, req, intent >>
  /\ UNCHANGED << gqlVars, spVars, uiVars >>

\* The iterator is done: the specialist ended its events with finished()
\* and all were consumed, or the connection was closed before that.
StreamDone(t) ==
  /\ pc[t] = "streaming"
  /\ StreamReturn(t, buf[t], [ hist[t] EXCEPT !.loopEnd = "done" ])
  /\ UNCHANGED << tools, settled, cancelled, store, awaiting, req, intent >>
  /\ UNCHANGED << gqlVars, spVars, uiVars >>

\* The stream fails (connection error, error response): the iterator
\* throws, and nothing in _streamAgentResponse or execute catches it.
StreamError(t) ==
  /\ pc[t] = "streaming"
  /\ pc' = [ pc EXCEPT ![t] = "rejected" ]
  /\ stream' = [ stream EXCEPT ![t] = NoStream ]
  /\ buf' = [ buf EXCEPT ![t] = "" ]
  /\ hist' = [ hist EXCEPT ![t].loopEnd = "error" ]
  /\ UNCHANGED << tools, settled, cancelled, store, awaiting, req, intent,
                  bus, finished >>
  /\ UNCHANGED << gqlVars, spVars, uiVars >>

\* What the completion call can do.
GenOutcomes == {"ok", "non-2xx", "throws"}

\* The catch of the completion call only logging: a failure leaves the
\* answer empty.
GeneralAnswer_ErrorSwallowed(outcome) ==
  IF outcome = "ok" THEN "Hello! How can I help?" \o "\n\n" ELSE ""

\* 4e: the text of the answer after the completion call.
GeneralAnswer(outcome) ==
  CASE outcome = "ok"      -> "Hello! How can I help?" \o "\n\n"
    [] outcome = "non-2xx" -> "**Error:** " \o "Azure OpenAI error 500" \o "\n\n"
    [] OTHER               -> "**Error:** " \o "request failed" \o "\n\n"

\* The completion call issued again after a failure (one retry), the turn
\* ending on the second outcome.
CompletionReturn_Retry(t) ==
  /\ pc[t] = "answering"
  /\ \E outcome \in GenOutcomes :
       IF outcome # "ok" /\ hist[t].gen < 2
       THEN /\ hist' = [ hist EXCEPT ![t].gen = @ + 1 ]
            /\ UNCHANGED << pc, bus, finished >>
       ELSE /\ Finish(t, GeneralAnswer(outcome))
            /\ hist' = [ hist EXCEPT ![t].genEnd = outcome ]
  /\ UNCHANGED << tools, settled, cancelled, store, awaiting, req, intent,
                  stream, buf >>
  /\ UNCHANGED << gqlVars, spVars, uiVars >>

\* The completion call returns; 4f, 4g end the turn.
CompletionReturn(t) ==
  /\ pc[t] = "answering"
  /\ \E outcome \in GenOutcomes :
       /\ Finish(t, GeneralAnswer(outcome))
       /\ hist' = [ hist EXCEPT ![t].genEnd = outcome ]
  /\ UNCHANGED << tools, settled, cancelled, store, awaiting, req, intent,
                  stream, buf >>
  /\ UNCHANGED << gqlVars, spVars, uiVars >>

Next ==
  \/ \E url \in Urls : FetchCard(url)
  \/ \E taskId \in { NewTaskId(t) : t \in Turns } : cancelTask(taskId)
  \/ \E t \in Turns : ExecuteStart(t)
  \/ \E t \in Turns : ResumeAfterInit(t)
  \/ \E t \in Turns : ClassifyReturn(t)
  \/ \E t \in Turns : StreamNext(t)
  \/ \E t \in Turns : StreamDone(t)
  \/ \E t \in Turns : StreamError(t)
  \/ \E t \in Turns : CompletionReturn(t)

Spec == Init /\ [][Next]_vars

\* One execute() call in the process: the first turn alone, with discovery
\* and cancellation running beside it.
NextSingle ==
  \/ \E url \in Urls : FetchCard(url)
  \/ cancelTask(NewTaskId(1))
  \/ ExecuteStart(1)
  \/ ResumeAfterInit(1)
  \/ ClassifyReturn(1)
  \/ StreamNext(1)
  \/ StreamDone(1)
  \/ StreamError(1)
  \/ CompletionReturn(1)

SpecSingle == Init /\ [][NextSingle]_vars

----------------------------------------------------------------------------
(* The GraphQL Tool Agent on its own: GraphQLAgentExecutor.execute called  *)
(* message after message, with its pending confirmations.                  *)

MaxGraphQLCalls == 4

\* The texts of the messages.
GraphQLTexts ==
  {"export csv", "yes", "no", "maybe", "stop, do not proceed", "chart",
   "query { allSites { name } }", SiteQuery}

\* /(^y(es)?$)|(^ok$)|approve|proceed/.test(decision)
Affirmative(decision) ==
  LET cs == toLowerCase(Chars(decision))
  IN  \/ cs \in {Chars("y"), Chars("yes"), Chars("ok")}
      \/ includes(cs, Chars("approve"))
      \/ includes(cs, Chars("proceed"))

\* /(^n(o)?$)|cancel|stop/.test(decision)
Declining(decision) ==
  LET cs == toLowerCase(Chars(decision))
  IN  \/ cs \in {Chars("n"), Chars("no")}
      \/ includes(cs, Chars("cancel"))
      \/ includes(cs, Chars("stop"))

\* The pending confirmation dropped whatever the reply is.
KeepsAwaiting_Never(decision) == FALSE

\* The reply leaves this.awaiting[taskId] in place: neither branch that
\* deletes it is taken.
KeepsAwaiting(decision) == ~Affirmative(decision) /\ ~Declining(decision)

\* headers.join(','): the first line of the CSV.
RECURSIVE JoinComma(_)
JoinComma(headers) ==
  IF headers = <<>> THEN ""
  ELSE IF Len(headers) = 1 THEN Head(headers)
  ELSE Head(headers) \o "," \o JoinComma(Tail(headers))

\* The rows of the CSV before encoding: the header line built from the
\* keys of dataArray[0], then one line per item.
CsvOf(dataArray) ==
  JoinComma(dataArray.fields) \o " + " \o ToString(dataArray.rows) \o " line(s)"

\* _exportCsv: the CSV artifact and the completed status.
ExportCsv(taskId, contextId, dataArray) ==
  <<Cited(WithText(ArtifactEv(taskId, contextId, "data-csv"), CsvOf(dataArray)),
          <<"Dataset: mockSites", "Skill: data_file_export">>),
    Cited(StatusEv(taskId, contextId, "completed", TRUE,
                   <<"Exported data to CSV file.">>),
          <<"Skill: data_file_export">>)>>

\* Every reply taken as a confirmation.
ReplyBranch_AlwaysExport(decision) == "export"

\* Which branch a reply to the prompt takes, the affirmative test first.
ReplyBranch(decision) ==
  IF Affirmative(decision) THEN "export"
  ELSE IF Declining(decision) THEN "decline"
  ELSE "ask-again"

\* execute on a task with a pending confirmation holding dataArray, once
\* the branch of the reply is known.
GraphQLReply(branch, taskId, contextId, isNew, dataArray) ==
  LET opening == IF isNew THEN <<TaskEv(taskId, contextId)>> ELSE <<>>
  IN  IF branch = "export"
      THEN [ events |-> opening \o ExportCsv(taskId, contextId, dataArray),
             ended |-> "finished" ]
      ELSE IF branch = "decline"
      THEN [ events |-> opening
               \o <<Cited(StatusEv(taskId, contextId, "completed", TRUE,
                                   <<"CSV export cancelled.">>),
                          <<"Skill: data_file_export">>)>>,
             ended |-> "finished" ]
      ELSE \* asks again; the call returns without finished()
           [ events |-> opening
               \o <<Cited(StatusEv(taskId, contextId, "input-required", FALSE,
                       <<"Please reply 'yes' or 'no' to confirm the CSV export.">>),
                          <<"HITL confirmation">>)>>,
             ended |-> "open" ]

\* execute on a task with a pending confirmation, from the text.
GraphQLContinue(userText, taskId, contextId, isNew, dataArray) ==
  GraphQLReply(ReplyBranch(userText), taskId, contextId, isNew, dataArray)

\* What the tests of execute give on each text: the intent, the query
\* source, the branch of a reply and whether the reply leaves the
\* confirmation pending.
TextTests ==
  [ userText \in GraphQLTexts |->
      [ intent |-> GraphQLIntent(userText),
        source |-> SourceFor(userText),
        branch |-> ReplyBranch(userText),
        keeps  |-> KeepsAwaiting(userText) ] ]

\* The context of the message: that of its task, or the one the message
\* names when the task is new, a context of its own or the first task's.
ContextsFor(taskId) ==
  LET earlier == { k \in 1..Len(gcalls) : gcalls[k].taskId = taskId }
  IN  IF earlier = {} THEN {ContextOf(taskId), ContextOf(ToolTaskId(1))}
      ELSE { gcalls[CHOOSE k \in earlier : TRUE].contextId }

\* The data a confirmation exports when it reads the context's memory.
ExportedData_Current(taskId, contextId) ==
  AsArray(DataOr(memoryByContext[contextId]))

\* The data a confirmation exports: this.awaiting[taskId].dataArray.
ExportedData(taskId, contextId) == awaitingData[taskId]

\* What the completion call of this execute can do: it is made in the
\* analysis branch only.
CompletionOutcomes(pending, gqlIntent) ==
  IF ~pending /\ gqlIntent = "data_analysis" THEN LlmOutcomes ELSE {"ok"}

\* One execute call of the GraphQL agent, from its first line to its return.
GraphQLExecute(taskId, contextId, userText, llm) ==
  /\ Len(gcalls) < MaxGraphQLCalls
  /\ contextId \in ContextsFor(taskId)
  /\ LET isNew   == \A k \in 1..Len(gcalls) : gcalls[k].taskId # taskId
         pending == taskId \in awaiting
         tests   == TextTests[userText]
         prompts == tests.intent = "data_file_export"
         run     == GraphQLBranches(tests.intent, tests.source, taskId, contextId,
                                    isNew, llm, memoryByContext[contextId])
         cont    == GraphQLReply(tests.branch, taskId, contextId, isNew,
                                 ExportedData(taskId, contextId))
     IN  /\ llm \in CompletionOutcomes(pending, tests.intent)
         /\ awaiting' =
               IF pending
               THEN IF tests.keeps THEN awaiting ELSE awaiting \ {taskId}
               ELSE IF prompts THEN awaiting \cup {taskId} ELSE awaiting
         /\ awaitingData' =
               IF pending
               THEN IF tests.keeps THEN awaitingData
                    ELSE [ awaitingData EXCEPT ![taskId] = NoData ]
               ELSE IF prompts
                    THEN [ awaitingData EXCEPT ![taskId] = run.dataArray ]
                    ELSE awaitingData
         /\ memoryByContext' =
               IF pending THEN memoryByContext
               ELSE [ memoryByContext EXCEPT ![contextId] = run.lastResultData ]
         /\ gcalls' = Append(gcalls,
               [ taskId |-> taskId, contextId |-> contextId,
                 text |-> userText, pending |-> pending,
                 memory |-> memoryByContext[contextId],
                 events |-> IF pending THEN cont.events ELSE run.events,
                 ended  |-> IF pending THEN cont.ended ELSE run.ended ])
  /\ UNCHANGED << tools, settled, cancelled, store, pc, req, intent, stream,
                  buf, bus, finished, hist, spVars, uiVars >>

NextGraphQL ==
  \E taskId \in GraphQLTasks, contextId \in GraphQLContexts,
     userText \in GraphQLTexts, llm \in LlmOutcomes :
    GraphQLExecute(taskId, contextId, userText, llm)

SpecGraphQL == Init /\ [][NextGraphQL]_vars

----------------------------------------------------------------------------
(* The chat front-end call by call: ChatController.sendMessage, the events *)
(* of its stream arriving one at a time, and cancelHitl.                   *)

orchVars == << tools, settled, cancelled, store, awaiting, pc, req, intent,
               stream, buf, bus, finished, hist >>

\* The events the assistant's stream can deliver to the call with record
\* r: the top-level ids are those of the assistant's task, the ids inside
\* status.message those of a tool's task.
StreamEvents(r) ==
  LET id  == r.taskId
      ctx == ContextOf(id)
      nested == [ msgTaskId |-> ToolTaskId(r.n),
                  msgContextId |-> ContextOf(ToolTaskId(r.n)) ]
  IN  { e @@ nested :
          e \in { StatusEv(id, ctx, "working", FALSE, <<"_Assistant is thinking..._">>),
                  StatusEv(id, ctx, "input-required", FALSE, <<"Proceed? (yes/no)">>),
                  StatusEv(id, ctx, "completed", TRUE, <<"Done.">>),
                  StatusEv(id, ctx, "cancelled", TRUE, <<"_(Task cancelled)_">>),
                  StatusEv(id, ctx, "failed", TRUE, <<"failed">>),
                  ArtifactEv(id, ctx, "result-json") } }

\* The anchor taken from the ids inside the event's status message.
AnchorOf_Nested(ev) == [ taskId |-> ev.msgTaskId, contextId |-> ev.msgContextId ]

\* `{ taskId: event.taskId, contextId: event.contextId }`.
AnchorOf(ev) == [ taskId |-> ev.taskId, contextId |-> ev.contextId ]

\* `state === "completed" && msg?.parts?.length`.
AccumulatesText(ev) == ev.state = "completed" /\ Len(ev.parts) > 0

\* `if (!sawInputReq) $scope.hitlPending = null`.
ClearsAnchor(sawInputReq) == ~sawInputReq

\* The prompt bubble pushed for every input-required event.
PostsHitlBubble_Every(fe, posted) == fe = "part_003"

\* `if (!postedHitlBubble)`, in the controller that shows the prompt.
PostsHitlBubble(fe, posted) == fe = "part_003" /\ ~posted

\* The code after the loop: the final bubble and the anchor. r is the
\* call's record and pending the anchor as the loop left them.
AfterLoop(c, r, pending) ==
  /\ calls' = [ calls EXCEPT ![c] =
        [ r EXCEPT !.phase = "done",
                   !.bubbles = IF r.finalMsgHtml # "" THEN Append(@, "final") ELSE @ ] ]
  /\ hitlPending' = IF ClearsAnchor(r.sawInputReq) THEN NoIds ELSE pending

\* One iteration of the loop of part_003 and app.js on event ev; the code
\* after the loop runs in the same step when the iteration breaks.
LoopBody(c, ev) ==
  LET isStatus == ev.kind = "status-update"
      isPrompt == isStatus /\ ev.state = "input-required"
      posts    == isPrompt /\ PostsHitlBubble(frontend, calls[c].postedHitlBubble)
      r == [ calls[c] EXCEPT
               !.seen = Append(@, ev),
               !.sawInputReq = @ \/ isPrompt,
               !.postedHitlBubble = @ \/ posts,
               !.bubbles = IF posts THEN Append(@, "hitl") ELSE @,
               !.finalMsgHtml = IF isStatus /\ AccumulatesText(ev)
                                THEN @ \o JoinParts(ev.parts) ELSE @,
               !.hitlCancelled = @ /\ ~isPrompt ]
      pending == IF isPrompt THEN AnchorOf(ev) ELSE hitlPending
  IN  IF ev.final
      THEN AfterLoop(c, r, pending)
      ELSE /\ calls' = [ calls EXCEPT ![c] = r ]
           /\ hitlPending' = pending

\* One iteration of the loop of part_002: every status with parts is
\* shown, and the loop breaks on state completed or failed.
LegacyLoopBody(c, ev) ==
  LET isText == ev.kind = "status-update" /\ Len(ev.parts) > 0
      breaks == isText /\ ev.state \in {"completed", "failed"}
  IN  /\ calls' = [ calls EXCEPT ![c] =
            [ @ EXCEPT !.seen = Append(@, ev),
                       !.bubbles = IF isText THEN Append(@, "agent") ELSE @,
                       !.phase = IF breaks THEN "done" ELSE @ ] ]
      /\ UNCHANGED hitlPending

\* sendMessage up to sendMessageStream.
SendMessage(c) ==
  /\ calls[c].phase \in {"idle", "done"}
  /\ sends < MaxSends
  /\ LET attached == IF frontend = "part_002" THEN NoIds ELSE hitlPending
     IN  calls' = [ calls EXCEPT ![c] =
           [ IdleCall EXCEPT
               !.phase = "streaming",
               !.n = sends + 1,
               !.attached = attached,
               !.taskId = IF attached # NoIds THEN attached.taskId
                          ELSE NewTaskId(sends + 1) ] ]
  /\ sends' = sends + 1
  /\ UNCHANGED << orchVars, gqlVars, spVars, frontend, hitlPending >>

\* The stream yields its next event.
OnEvent(c) ==
  /\ calls[c].phase = "streaming"
  /\ Len(calls[c].seen) < MaxEvents
  /\ \E ev \in StreamEvents(calls[c]) :
       IF frontend = "part_002" THEN LegacyLoopBody(c, ev) ELSE LoopBody(c, ev)
  /\ UNCHANGED << orchVars, gqlVars, spVars, frontend, sends >>

\* The stream ends without the loop having broken.
StreamEnds(c) ==
  /\ calls[c].phase = "streaming"
  /\ IF frontend = "part_002"
     THEN /\ calls' = [ calls EXCEPT ![c].phase = "done" ]
          /\ UNCHANGED hitlPending
     ELSE AfterLoop(c, calls[c], hitlPending)
  /\ UNCHANGED << orchVars, gqlVars, spVars, frontend, sends >>

\* The stream throws: the catch block.
StreamThrows(c) ==
  /\ calls[c].phase = "streaming"
  /\ calls' = [ calls EXCEPT ![c] =
        [ @ EXCEPT !.phase = "done", !.threw = TRUE,
                   !.bubbles = Append(@, "error") ] ]
  /\ hitlPending' = IF frontend = "part_002" THEN hitlPending ELSE NoIds
  /\ UNCHANGED << orchVars, gqlVars, spVars, frontend, sends >>

\* $scope.cancelHitl.
cancelHitl ==
  /\ frontend # "part_002"
  /\ hitlPending' = NoIds
  /\ calls' = [ c \in Calls |->
        IF calls[c].phase = "idle" THEN calls[c]
        ELSE [ calls[c] EXCEPT !.hitlCancelled = TRUE ] ]
  /\ UNCHANGED << orchVars, gqlVars, spVars, frontend, sends >>

\* The page is served with one of the controllers.
InitFrontend ==
  /\ Constructed
  /\ PageLoaded
  /\ frontend \in Frontends

NextFrontend ==
  \/ \E c \in Calls : SendMessage(c)
  \/ \E c \in Calls : OnEvent(c)
  \/ \E c \in Calls : StreamEnds(c)
  \/ \E c \in Calls : StreamThrows(c)
  \/ cancelHitl

SpecFrontend == InitFrontend /\ [][NextFrontend]_vars

\* The user sends the next message only when the turn before has ended:
\* one sendMessage call at a time.
NextFrontendSingle ==
  \/ SendMessage(1)
  \/ OnEvent(1)
  \/ StreamEnds(1)
  \/ StreamThrows(1)
  \/ cancelHitl

SpecFrontendSingle == InitFrontend /\ [][NextFrontendSingle]_vars

----------------------------------------------------------------------------
(* The specialists on their own: execute and cancelTask of the calculator  *)
(* (part_001 and part_002), the weather agent and the GraphQL agent, each  *)
(* with its own task store and cancelled set.                              *)

MaxRuns == 2

SpecialistTasks == { ToolTaskId(t) : t \in Turns }

\* The texts sent to each specialist.
SpecialistTexts(agent) ==
  CASE agent \in {"calculator", "calculator_002"} ->
         {"25 * 4 + 16", "weather"}
    [] agent = "weather" -> {"weather in Paris", "weather"}
    [] OTHER -> {"maybe"}

\* A catch that hides the error behind a fixed text.
ErrorText_Generic(agent, message) == "Something went wrong."

\* The result text the catch of execute builds from the error.
ErrorText(agent, message) ==
  CASE agent = "weather" -> "Error retrieving weather: " \o message
    [] agent = "graphql" -> "**Error:** " \o message
    [] OTHER             -> "Error: " \o message

\* part_001: the message of the error thrown in the try block, "" if none.
CalculatorFailure(rawText) ==
  LET expr == ExtractExpr(rawText)
  IN  IF expr = "" THEN "No valid expression found in input."
      ELSE IF Evaluate(expr).ok THEN "" ELSE Evaluate(expr).text

\* part_002: the whole text has to match /^[0-9+\-*/().^ %\s]+$/ and is
\* then evaluated; the message of the error thrown, "" if none.
LegacyFailure(expr) ==
  IF expr = "" \/ \E i \in 1..Len(Chars(expr)) : Chars(expr)[i] \notin ExprChars
  THEN "Unsupported characters in expression"
  ELSE IF Evaluate(expr).ok THEN "" ELSE Evaluate(expr).text

LegacyResultText(expr) ==
  IF LegacyFailure(expr) # ""
  THEN ErrorText("calculator_002", LegacyFailure(expr))
  ELSE expr \o " = " \o Evaluate(expr).text

\* query.match(/(?:in|for)\s+([A-Za-z\s]+?)(?:\?|$)/i), or the query
\* without the common words, on the texts of the model.
ExtractLocation(query) ==
  IF query = "weather in Paris" THEN "Paris" ELSE ""

\* What the call to OpenWeatherMap can do: a report, a body without
\* main/weather, a status that is not 2xx, a rejected fetch.
FetchResults == {"ok", "no-data", "non-2xx", "rejects"}

\* The message of the error thrown before the fetch, "" if none.
PreFetchFailure(location, hasKey) ==
  IF location = "" THEN "No location specified in query."
  ELSE IF ~hasKey THEN "Missing OPENWEATHER_KEY environment variable."
  ELSE ""

\* The message of the error thrown on the result of the fetch, "" if none.
FetchFailure(outcome) ==
  CASE outcome = "non-2xx" -> "OpenWeather error 404: city not found"
    [] outcome = "rejects" -> "fetch failed"
    [] OTHER               -> ""

WeatherResultText(location, failure, outcome) ==
  IF failure # "" THEN ErrorText("weather", failure)
  ELSE IF outcome = "ok"
       THEN "Weather in " \o location \o ": clear sky, 21 C"
       ELSE "Sorry, couldn't find weather for \"" \o location \o "\"."

\* The cancellation check reading nothing.
CancelledAtCheck_Never(agent, taskId) == FALSE

\* `this.cancelledTasks.has(taskId)`.
CancelledAtCheck(agent, taskId) == taskId \in cancelledTasks[agent]

\* The task event of a new task and the working status.
SpecialistOpening(agent, taskId, contextId, isNew) ==
  (IF isNew THEN <<TaskEv(taskId, contextId)>> ELSE <<>>)
  \o <<StatusEv(taskId, contextId, "working", FALSE,
                <<IF agent = "weather" THEN "Checking weather data..."
                  ELSE "Crunching numbers...">>)>>

\* The cancellation check and the final response.
SpecialistFinal(agent, taskId, contextId, isCancelled, resultText) ==
  IF isCancelled
  THEN StatusEv(taskId, contextId, "cancelled", TRUE,
                <<IF agent = "weather" THEN "(cancelled)"
                  ELSE "(calculation cancelled)">>)
  ELSE StatusEv(taskId, contextId, "completed", TRUE, <<resultText>>)

\* execute of the calculator of part_002.
LegacyCalculatorRun(expr, taskId, contextId, isNew, isCancelled) ==
  [ events |-> SpecialistOpening("calculator_002", taskId, contextId, isNew)
               \o <<SpecialistFinal("calculator_002", taskId, contextId,
                                    isCancelled, LegacyResultText(expr))>>,
    ended |-> "finished" ]

\* The message of the error the GraphQL agent catches, "" if none.
GraphQLFailure(userText, llm) ==
  IF GraphQLIntent(userText) = "data_analysis" /\ llm = "fails"
  THEN "Azure OpenAI 500: upstream" ELSE ""

\* One execute call of a specialist, up to its return or to its first
\* await of the network.
SpecialistExecute(agent, taskId, text, hasKey, llm) ==
  /\ Len(runs) < MaxRuns
  /\ text \in SpecialistTexts(agent)
  /\ agent # "weather" => hasKey
  /\ agent # "graphql" => llm = "ok"
  /\ LET contextId == ContextOf(taskId)
         isNew     == \A k \in 1..Len(runs) :
                        ~(runs[k].agent = agent /\ runs[k].taskId = taskId)
         location  == ExtractLocation(text)
         pre       == PreFetchFailure(location, hasKey)
         done(run, failure) ==
           [ agent |-> agent, taskId |-> taskId, isNew |-> isNew, text |-> text,
             pc |-> "done", events |-> run.events,
             finished |-> run.ended = "finished", failure |-> failure ]
     IN  runs' = Append(runs,
           CASE agent = "calculator" ->
                  done(CalculatorRun(text, taskId, contextId, isNew,
                                     CancelledAtCheck(agent, taskId)),
                       CalculatorFailure(text))
             [] agent = "calculator_002" ->
                  done(LegacyCalculatorRun(text, taskId, contextId, isNew,
                                           CancelledAtCheck(agent, taskId)),
                       LegacyFailure(text))
             [] agent = "graphql" ->
                  done(GraphQLRun(text, taskId, contextId, isNew, llm),
                       GraphQLFailure(text, llm))
             [] OTHER ->
                  IF pre # ""
                  THEN done([ events |->
                                SpecialistOpening(agent, taskId, contextId, isNew)
                                \o <<SpecialistFinal(agent, taskId, contextId,
                                        CancelledAtCheck(agent, taskId),
                                        WeatherResultText(location, pre, "none"))>>,
                              ended |-> "finished" ], pre)
                  ELSE [ agent |-> agent, taskId |-> taskId, isNew |-> isNew,
                         text |-> text, pc |-> "fetching",
                         events |-> SpecialistOpening(agent, taskId, contextId, isNew),
                         finished |-> FALSE, failure |-> "" ])
  /\ UNCHANGED << orchVars, gqlVars, uiVars, cancelledTasks >>

\* The fetch of weather run r settles: the result text, the cancellation
\* check, the final status and finished().
WeatherFetchReturns(r, outcome) ==
  /\ r \in 1..Len(runs)
  /\ runs[r].pc = "fetching"
  /\ LET run      == runs[r]
         failure  == FetchFailure(outcome)
         location == ExtractLocation(run.text)
     IN  runs' = [ runs EXCEPT ![r] =
           [ run EXCEPT
               !.pc = "done",
               !.events = @ \o <<SpecialistFinal(run.agent, run.taskId,
                                    ContextOf(run.taskId),
                                    CancelledAtCheck(run.agent, run.taskId),
                                    WeatherResultText(location, failure, outcome))>>,
               !.finished = TRUE,
               !.failure = failure ] ]
  /\ UNCHANGED << orchVars, gqlVars, uiVars, cancelledTasks >>

\* cancelTask of a specialist.
SpecialistCancelTask(agent, taskId) ==
  /\ taskId \notin cancelledTasks[agent]
  /\ cancelledTasks' = [ cancelledTasks EXCEPT ![agent] = @ \cup {taskId} ]
  /\ UNCHANGED << orchVars, gqlVars, uiVars, runs >>

NextSpecialists ==
  \/ \E agent \in Specialists, taskId \in SpecialistTasks,
        text \in {"25 * 4 + 16", "weather", "weather in Paris", "maybe"},
        hasKey \in BOOLEAN, llm \in LlmOutcomes :
       SpecialistExecute(agent, taskId, text, hasKey, llm)
  \/ \E r \in 1..MaxRuns, outcome \in FetchResults : WeatherFetchReturns(r, outcome)
  \/ \E agent \in Cancellable, taskId \in SpecialistTasks :
       SpecialistCancelTask(agent, taskId)

SpecSpecialists == Init /\ [][NextSpecialists]_vars

----------------------------------------------------------------------------
(* Properties.                                                             *)

\* Positions of the events with final:true among those a turn published.
FinalEvents(t) == { k \in 1..Len(bus[t]) : bus[t][k].final }

\* The turn's stream loop consumed an input-required status.
InputRequiredSeen(t) ==
  \E k \in 1..Len(hist[t].seen) : hist[t].seen[k].state = "input-required"

\* The text the stream loop had accumulated from the events it consumed.
RECURSIVE Accumulated(_)
Accumulated(seen) ==
  IF seen = <<>> THEN ""
  ELSE Accumulated(SubSeq(seen, 1, Len(seen) - 1))
       \o (IF seen[Len(seen)].kind = "status-update"
           THEN JoinParts(seen[Len(seen)].parts) ELSE "")

\* The GraphQL Tool Agent is in the registry, with no entry before it on
\* which the lookup fails.
GraphQLRegistered == FindTool(tools, "graphql") > 0

\* C1: every event a turn publishes carries the task id and context id of
\* the orchestrator's own task, whatever identifiers the specialist's
\* events carry.
C1_CallerIds ==
  \A t \in Turns : \A k \in 1..Len(bus[t]) :
    /\ bus[t][k].taskId = req[t].taskId
    /\ bus[t][k].contextId = req[t].contextId

\* A delegated turn has ended after consuming specialist events that carry
\* the specialist's own task id.
C1_Witness ==
  \E t \in Turns :
    /\ pc[t] = "done"
    /\ hist[t].loopEnd = "final"
    /\ \E k \in 1..Len(hist[t].seen) :
         /\ hist[t].seen[k].taskId = ToolTaskId(t)
         /\ hist[t].seen[k].taskId # req[t].taskId
    /\ Len(bus[t]) >= 2

\* C2: a turn never publishes more than one event with final:true, and a
\* turn that has ended, whatever the classification result, the stream
\* outcome, the completion outcome and the cancellation timing, has
\* published exactly one.
C2_ExactlyOneFinal ==
  \A t \in Turns :
    /\ Cardinality(FinalEvents(t)) <= 1
    /\ Ended(t) => Cardinality(FinalEvents(t)) = 1

\* C3: with an empty registry after discovery, a turn that ends (on a task
\* not cancelled) has published its terminal event after one completion
\* call, whatever the intent.
C3_EmptyRegistryDirectAnswer ==
  \A t \in Turns :
    ( /\ settled = Urls
      /\ tools = <<>>
      /\ Ended(t)
      /\ req[t].taskId \notin cancelled )
    => /\ Cardinality(FinalEvents(t)) = 1
       /\ hist[t].gen = 1

\* C4: once a turn's specialist stream has reported input-required, the
\* step that takes up the next message for the same orchestrator task
\* issues no classification call and forwards the message to the
\* specialist's paused task and context.
C4_NextMessageForwarded ==
  [][ \A p, q \in Turns :
        ( /\ p # q
          /\ InputRequiredSeen(p)
          /\ pc[q] \in {"idle", "init"}
          /\ pc'[q] \notin {"idle", "init"}
          /\ req'[q].taskId = req[p].taskId )
        => /\ hist'[q].cls = 0
           /\ Len(hist'[q].sent) = 1
           /\ hist'[q].sent[1].taskId = ToolTaskId(p)
           /\ hist'[q].sent[1].contextId = ContextOf(ToolTaskId(p)) ]_vars

\* C5: a request on which the specialist asks for confirmation gives the
\* caller exactly one HITL prompt bubble and no completion bubble; the
\* reply "yes" on the same task gives exactly one completion bubble, and
\* afterwards the specialist holds no pending confirmation for it.
C5_BridgeRoundTrip ==
  \A p \in Turns :
    ( /\ pc[p] = "done"
      /\ InputRequiredSeen(p)
      /\ req[p].taskId \notin cancelled )
    => /\ Bubbles(bus[p]).hitl = 1
       /\ Bubbles(bus[p]).final = 0
       /\ \A q \in Turns :
            ( /\ q # p
              /\ pc[q] = "done"
              /\ req[q].taskId = req[p].taskId
              /\ req[q].text = "yes" )
            => /\ Bubbles(bus[q]).hitl = 0
               /\ Bubbles(bus[q]).final = 1
               /\ ToolTaskId(p) \notin awaiting

\* The text holds a structured-query marker: a query literal, or one of
\* the keywords chart, graph, csv, export, visualize, plot.
HasStructuredMarker(text) ==
  LET cs    == Chars(text)
      lower == toLowerCase(cs)
  IN  \/ startsWith(lower, Chars("query"))
      \/ startsWith(cs, Chars("{"))
      \/ \E kw \in {"chart", "graph", "csv", "export", "visualize", "plot"} :
           includes(lower, Chars(kw))

\* C6: a turn whose text holds a structured-query marker, once routed with
\* the GraphQL Tool Agent registered, has been delegated to that agent,
\* whatever label the classification call returned.
C6_DeterministicOverride ==
  \A t \in Turns :
    ( /\ HasStructuredMarker(req[t].text)
      /\ pc[t] \in {"streaming", "answering", "done"}
      /\ req[t].taskId \notin cancelled
      /\ GraphQLRegistered )
    => /\ Len(hist[t].sent) = 1
       /\ hist[t].sent[1].label = graphQLAgentCard.name

\* C7: a turn on a task cancelled before its cancellation check ends with
\* a terminal event of state cancelled; no turn publishes both a cancelled
\* and a completed event; cancelTask leaves every turn, its stream and
\* its events as they are.
C7_CooperativeCancel ==
  /\ [] ( \A t \in Turns :
            ~ ( /\ \E k \in 1..Len(bus[t]) : bus[t][k].state = "cancelled"
                /\ \E k \in 1..Len(bus[t]) : bus[t][k].state = "completed" ) )
  /\ [][ /\ \A t \in Turns :
              ( /\ req[t].taskId \in cancelled
                /\ pc[t] # "done"
                /\ pc'[t] = "done" )
              => /\ bus'[t][Len(bus'[t])].state = "cancelled"
                 /\ bus'[t][Len(bus'[t])].final
                 /\ Cardinality({ k \in 1..Len(bus'[t]) : bus'[t][k].final }) = 1
         /\ cancelled' # cancelled
              => UNCHANGED << pc, stream, buf, bus, finished, hist >> ]_vars

\* A turn cancelled while its delegation stream was being read has read
\* the stream to its final event and then ended with state cancelled.
C7_Witness ==
  \E t \in Turns :
    /\ pc[t] = "done"
    /\ hist[t].loopEnd = "final"
    /\ req[t].taskId \in cancelled
    /\ bus[t][Len(bus[t])].state = "cancelled"

\* C8: a turn that ends with a delegating intent for which the registry
\* holds no matching specialist (on a task not cancelled) has issued the
\* completion call, and its terminal text is the completion's answer.
C8_NoMatchFallsThrough ==
  \A t \in Turns :
    ( /\ settled = Urls
      /\ pc[t] = "done"
      /\ intent[t] \in DelegatingIntents
      /\ FindTool(tools, intent[t]) = 0
      /\ req[t].taskId \notin cancelled )
    => /\ hist[t].gen = 1
       /\ \E outcome \in GenOutcomes :
            bus[t][Len(bus[t])].parts = <<GeneralAnswer(outcome)>>

\* C9: a turn whose specialist stream threw or closed before its final
\* event has ended with one terminal event, whose text holds the text
\* accumulated before the failure and more than that text.
C9_DelegationFailureTerminal ==
  \A t \in Turns :
    ( /\ Ended(t)
      /\ hist[t].loopEnd \in {"error", "done"}
      /\ req[t].taskId \notin cancelled )
    => /\ Cardinality(FinalEvents(t)) = 1
       /\ LET text    == JoinParts(bus[t][Len(bus[t])].parts)
              partial == Accumulated(hist[t].seen)
          IN  /\ text # "*[No answer]*"
              /\ text # LabelledAnswer(hist[t].sent[1].label, partial)

\* C10: discovery runs once (every agent URL is fetched once, so the
\* registry holds at most one entry per URL and does not change once
\* discovery has completed), and a turn past `await this.initPromise` has
\* discovery completed behind it.
C10_DiscoveryOnceBeforeUse ==
  /\ [] ( /\ \A u \in Urls :
               Cardinality({ k \in 1..Len(tools) : tools[k].url = u }) <= 1
          /\ \A k \in 1..Len(tools) : tools[k].url \in settled
          /\ \A t \in Turns :
               pc[t] \notin {"idle", "init"} => settled = Urls )
  /\ [][ /\ settled \subseteq settled'
         /\ settled = Urls => tools' = tools ]_vars

\* Two turns started before discovery completed; discovery has completed
\* with both specialists registered; one turn is past the gate and the
\* other is still to resume.
C10_Witness ==
  /\ settled = Urls
  /\ Len(tools) = Len(AGENT_URLS)
  /\ pc[1] = "classifying"
  /\ pc[2] = "init"

\* C11: after any part of discovery, every registry entry holds the
\* well-formed card its agent serves: an address whose fetch failed (by a
\* network error, a non-2xx response or a malformed body) is not in the
\* registry.
C11_OnlyWellFormedRegistered ==
  \A k \in 1..Len(tools) :
    /\ "name" \in DOMAIN tools[k].card
    /\ "skills" \in DOMAIN tools[k].card
    /\ tools[k].card = CardAt(tools[k].url)

FourLabels == {"weather", "calculator", "graphql", "general"}

\* C13: the intent of a classified turn is one of the four labels, and a
\* turn that ended on a task not cancelled has delegated or has issued the
\* completion call.
C13_IntentIsOneOfFour ==
  \A t \in Turns :
    /\ pc[t] \in {"streaming", "answering", "done", "rejected"}
         => intent[t] \in FourLabels
    /\ (pc[t] = "done" /\ req[t].taskId \notin cancelled)
         => (hist[t].sent # <<>> \/ hist[t].gen = 1)

\* The last specialist event a turn's stream loop consumed.
LastSeen(t) == hist[t].seen[Len(hist[t].seen)]

\* C14: a delegated turn that read its specialist's stream to the final
\* completed status with text T, and ended on a task not cancelled, has the
\* terminal text "**<specialist name>:** T\n\n" exactly; for the text
\* "Calculate 25 * 4 + 16" sent to the Calculator Agent that is
\* "**Calculator Agent:** 25 * 4 + 16 = 116\n\n".
C14_TerminalTextIsFinalTextOnly ==
  \A t \in Turns :
    ( /\ pc[t] = "done"
      /\ hist[t].loopEnd = "final"
      /\ LastSeen(t).state = "completed"
      /\ req[t].taskId \notin cancelled )
    => /\ bus[t][Len(bus[t])].parts =
            << "**" \o hist[t].sent[1].label \o ":** "
               \o JoinParts(LastSeen(t).parts) \o "\n\n" >>
       /\ ( /\ req[t].text = "Calculate 25 * 4 + 16"
            /\ hist[t].sent[1].label = calculatorAgentCard.name )
          => bus[t][Len(bus[t])].parts =
               << "**Calculator Agent:** 25 * 4 + 16 = 116\n\n" >>

\* The artifact-update events among events, in order, with the task and
\* context identifiers set to taskId and contextId.
RECURSIVE ArtifactsAs(_, _, _)
ArtifactsAs(events, taskId, contextId) ==
  IF events = <<>> THEN <<>>
  ELSE (IF Head(events).kind = "artifact-update"
        THEN << [ Head(events) EXCEPT !.taskId = taskId,
                                      !.contextId = contextId ] >>
        ELSE <<>>)
       \o ArtifactsAs(Tail(events), taskId, contextId)

\* C15: a delegated turn that read its specialist's stream to the final
\* event, and ended, has published every artifact-update it consumed, in
\* order, unchanged but for the task and context identifiers.
C15_ArtifactsForwarded ==
  \A t \in Turns :
    ( /\ pc[t] = "done"
      /\ hist[t].loopEnd = "final" )
    => ArtifactsAs(bus[t], req[t].taskId, req[t].contextId)
         = ArtifactsAs(hist[t].seen, req[t].taskId, req[t].contextId)

\* The citations on the events, in order.
RECURSIVE CitationsOf(_)
CitationsOf(events) ==
  IF events = <<>> THEN <<>>
  ELSE Head(events).citations \o CitationsOf(Tail(events))

\* C16: a delegated turn that read its specialist's stream to the final
\* completed status, and ended on a task not cancelled, has a terminal
\* event whose citations begin with all the specialist's citations, in
\* their order, none dropped.
C16_SpecialistCitationsFirst ==
  \A t \in Turns :
    ( /\ pc[t] = "done"
      /\ hist[t].loopEnd = "final"
      /\ req[t].taskId \notin cancelled )
    => LET given == CitationsOf(hist[t].seen)
           final == bus[t][Len(bus[t])].citations
       IN  /\ Len(final) >= Len(given)
           /\ SubSeq(final, 1, Len(given)) = given

TaskEventsFor(id) ==
  { tk \in UNION { { <<t, k>> : k \in 1..Len(bus[t]) } : t \in Turns } :
      /\ bus[tk[1]][tk[2]].kind = "task"
      /\ bus[tk[1]][tk[2]].taskId = id }

\* The number of task events among events.
RECURSIVE CountTaskEvents(_)
CountTaskEvents(events) ==
  IF events = <<>> THEN 0
  ELSE (IF Head(events).kind = "task" THEN 1 ELSE 0)
       + CountTaskEvents(Tail(events))

\* The GraphQL Tool Agent publishes its task event on a new task only.
GraphQLTaskEventOnlyWhenNew ==
  \A text \in Texts, llm \in LlmOutcomes :
    /\ CountTaskEvents(GraphQLRun(text, "t", "c", TRUE, llm).events) = 1
    /\ CountTaskEvents(GraphQLRun(text, "t", "c", FALSE, llm).events) = 0

\* C18: for every task id one task (submitted) event has been published
\* once a turn has opened on it and none before; it is the first event of
\* a turn that found the task new, and a turn on an existing task
\* publishes none.
C18_TaskEventOncePerTask ==
  /\ GraphQLTaskEventOnlyWhenNew
  /\ \A id \in { NewTaskId(t) : t \in Turns } :
       Cardinality(TaskEventsFor(id)) = IF id \in store THEN 1 ELSE 0
  /\ \A t \in Turns : \A k \in 1..Len(bus[t]) :
       bus[t][k].kind = "task" => (k = 1 /\ ~req[t].existing)

\* Two turns on the same task have both ended; the first published the
\* task event and the second did not.
C18_Witness ==
  /\ pc[1] = "done"
  /\ pc[2] = "done"
  /\ req[1].taskId = req[2].taskId
  /\ req[2].existing
  /\ bus[1][1].kind = "task"
  /\ bus[2][1].kind = "status-update"

\* Some turn has published a terminal state for task id.
TerminalReported(id) ==
  \E u \in Turns : \E k \in 1..Len(bus[u]) :
    /\ bus[u][k].taskId = id
    /\ bus[u][k].state \in {"completed", "cancelled", "failed"}

\* C19: no step publishes an event with a non-terminal state (submitted,
\* working, input-required) for a task for which a terminal state
\* (completed, cancelled, failed) has already been published, whichever
\* turns on that task the events belong to.
C19_TaskStateMonotonic ==
  [][ \A t \in Turns : \A k \in (Len(bus[t]) + 1)..Len(bus'[t]) :
        bus'[t][k].state \in {"submitted", "working", "input-required"}
        => ~TerminalReported(bus'[t][k].taskId) ]_vars

\* Positions of the working events among those a turn published.
WorkingEvents(t) ==
  { k \in 1..Len(bus[t]) :
      bus[t][k].kind = "status-update" /\ bus[t][k].state = "working" }

\* C20: a turn that has issued its classification call has published
\* exactly one working event, not final, ahead of every other status
\* update of the turn, and that event has no text parts.
C20_WorkingPlaceholder ==
  \A t \in Turns :
    hist[t].cls = 1
    => /\ Cardinality(WorkingEvents(t)) = 1
       /\ \A k \in WorkingEvents(t) :
            /\ ~bus[t][k].final
            /\ \A j \in 1..(k - 1) : bus[t][j].kind = "task"
            /\ bus[t][k].parts = <<>>

\* C21: no operation of a turn is retried: at every moment a turn has
\* issued at most one classification call, at most one delegated stream
\* and at most one completion call, whatever their outcomes were.
C21_NoRetry ==
  \A t \in Turns :
    /\ hist[t].cls <= 1
    /\ Len(hist[t].sent) <= 1
    /\ hist[t].gen <= 1

\* A turn has ended after its classification call failed and its
\* completion call failed, each issued once.
C21_Witness ==
  \E t \in Turns :
    /\ pc[t] = "done"
    /\ hist[t].clsEnd \in {"non-2xx", "throws"}
    /\ hist[t].genEnd \in {"non-2xx", "throws"}
    /\ hist[t].cls = 1
    /\ hist[t].gen = 1

\* The registry's entries in the order of the address list, whichever
\* fetch completed first.
RECURSIVE InAddressOrder(_, _)
InAddressOrder(reg, k) ==
  IF k > Len(AGENT_URLS) THEN <<>>
  ELSE SelectSeq(reg, LAMBDA e : e.url = AGENT_URLS[k])
       \o InAddressOrder(reg, k + 1)

\* What the lookup for intent i gives on registry reg: the address of the
\* entry selected, "none", or "TypeError" when the predicate throws.
Selected(reg, i) ==
  LET k == FindTool(reg, i)
  IN  IF k > 0 THEN reg[k].url ELSE IF k < 0 THEN "TypeError" ELSE "none"

IntentPathOf(ev) ==
  IF "intentPath" \in DOMAIN ev THEN ev.intentPath ELSE <<>>

\* The "<specialist>.<skill>" labels of a specialist called by its name.
SkillLabels(name) ==
  UNION { { name \o "." \o c.skills[k] : k \in 1..Len(c.skills) } :
          c \in { d \in {calculatorAgentCard, graphQLAgentCard} : d.name = name } }

\* C23: the terminal event of every turn carries the full intent path:
\* <<"orchestrator.general", "<specialist>.<skill>">> when the turn was
\* delegated, and <<"orchestrator.general">> for a direct answer.
C23_TerminalIntentPath ==
  \A t \in Turns :
    pc[t] = "done" =>
      LET path == IntentPathOf(bus[t][Len(bus[t])])
      IN  IF hist[t].sent # <<>>
          THEN /\ Len(path) = 2
               /\ path[1] = "orchestrator.general"
               /\ path[2] \in SkillLabels(hist[t].sent[1].label)
          ELSE path = <<"orchestrator.general">>

\* C24: every producer run ends its event channel with an explicit
\* finished signal after its last event, on every path: a specialist's run
\* whose stream the orchestrator is reading was ended with finished(),
\* also when its last event is input-required, and an orchestrator turn
\* that has ended called finished() after its last event.
C24_EveryRunFinishes ==
  \A t \in Turns :
    /\ pc[t] = "streaming" => stream[t].ended = "finished"
    /\ Ended(t) => finished[t]

\* The calls on task id after call k, and whether the task's confirmation
\* is still pending after call k: the next call on the task found it
\* pending, or there was none and this.awaiting holds the task.
ArmedAfter(k) ==
  LET later == { j \in (k + 1)..Len(gcalls) : gcalls[j].taskId = gcalls[k].taskId }
  IN  IF later = {} THEN gcalls[k].taskId \in awaiting
      ELSE gcalls[CHOOSE j \in later : \A i \in later : j <= i].pending

\* C26: a reply to a paused task that neither confirms nor declines makes
\* the GraphQL agent report input-required again and keeps the task's
\* awaiting entry, for any number of such replies in a row; a confirming
\* or declining reply removes it.
C26_UnresolvedReplyReArms ==
  \A k \in 1..Len(gcalls) :
    gcalls[k].pending =>
      LET last == gcalls[k].events[Len(gcalls[k].events)]
      IN  IF Affirmative(gcalls[k].text) \/ Declining(gcalls[k].text)
          THEN /\ last.state = "completed"
               /\ ~ArmedAfter(k)
          ELSE /\ last.state = "input-required"
               /\ ArmedAfter(k)

\* A task asked for the export, got two replies in a row that resolve
\* nothing, and was then confirmed: the CSV was exported.
C26_Witness ==
  /\ Len(gcalls) = 4
  /\ \A k \in 1..4 : gcalls[k].taskId = ToolTaskId(1)
  /\ gcalls[1].text = "export csv"
  /\ gcalls[2].pending /\ gcalls[2].text = "maybe"
  /\ gcalls[3].pending /\ gcalls[3].text = "export csv"
  /\ gcalls[4].pending /\ gcalls[4].text = "yes"
  /\ gcalls[4].events[Len(gcalls[4].events)].parts = <<"Exported data to CSV file.">>
  /\ ToolTaskId(1) \notin awaiting

\* C25: the front-end's stream loop treats final:true as closing the turn:
\* no event of a stream is processed after the first one with final:true,
\* and once a final event of any terminal state (completed, cancelled,
\* failed) has been processed the call has left its loop.
C25_FinalClosesTurn ==
  \A c \in Calls :
    LET seen == calls[c].seen
    IN  /\ \A k \in 1..(Len(seen) - 1) : ~seen[k].final
        /\ ( /\ seen # <<>>
              /\ seen[Len(seen)].final
              /\ seen[Len(seen)].state \in {"completed", "cancelled", "failed"} )
           => calls[c].phase = "done"

\* The input-required events among those a call's loop processed.
Prompts(seen) ==
  { k \in 1..Len(seen) :
      seen[k].kind = "status-update" /\ seen[k].state = "input-required" }

C28_AnchorIffInputRequired ==
  [][ \A c \in Calls :
        ( /\ frontend # "part_002"
          /\ calls[c].phase = "streaming"
          /\ calls'[c].phase = "done" )
        => ( hitlPending' # NoIds
               <=> ( /\ Prompts(calls'[c].seen) # {}
                     /\ ~calls'[c].threw
                     /\ ~calls'[c].hitlCancelled ) ) ]_vars

\* C29: with two sendMessage calls in flight, the anchor that an
\* input-required event of one call's stream has set is left as it is by
\* the step in which the other call ends.
C29_AnchorSurvivesOtherStream ==
  [][ \A c, d \in Calls :
        ( /\ frontend # "part_002"
          /\ c # d
          /\ calls[c].phase = "streaming"
          /\ Prompts(calls[c].seen) # {}
          /\ hitlPending # NoIds
          /\ hitlPending.taskId = calls[c].taskId
          /\ calls[d].phase = "streaming"
          /\ calls'[d].phase = "done" )
        => hitlPending' = hitlPending ]_vars

\* How many bubbles of a kind a call has pushed.
CountBubbles(bubbles, kind) ==
  Cardinality({ k \in 1..Len(bubbles) : bubbles[k] = kind })

\* C30: in the controller of part_003 one stream turn pushes at most one
\* HITL prompt bubble, however many input-required events it processed,
\* and at most one final assistant bubble, pushed only when a completed
\* status with text was processed.
C30_OneBubbleOfEachKind ==
  \A c \in Calls :
    frontend = "part_003" =>
      /\ CountBubbles(calls[c].bubbles, "hitl") <= 1
      /\ CountBubbles(calls[c].bubbles, "final") <= 1
      /\ CountBubbles(calls[c].bubbles, "final") = 1
           => \E k \in 1..Len(calls[c].seen) :
                /\ calls[c].seen[k].kind = "status-update"
                /\ calls[c].seen[k].state = "completed"
                /\ calls[c].seen[k].parts # <<>>

\* A turn processed two input-required events and then a completed
\* status: one prompt bubble and one final bubble.
C30_Witness ==
  /\ frontend = "part_003"
  /\ calls[1].phase = "done"
  /\ Prompts(calls[1].seen) = {1, 2}
  /\ calls[1].seen[3].state = "completed"
  /\ calls[1].bubbles = <<"hitl", "final">>

\* C38: the cancelled set only grows, and from the moment a task is in it
\* a turn on that task that has not reached routing (a turn that starts
\* later, a follow-up message included) never delegates, answers or
\* rejects: it can only end, and it ends with a cancelled terminal event.
C38_CancelledSetOnlyGrows ==
  [][ /\ cancelled \subseteq cancelled'
      /\ \A t \in Turns :
           ( /\ req'[t].taskId \in cancelled
             /\ pc[t] \in {"idle", "init", "classifying"} )
           => /\ pc'[t] \in {"init", "classifying", "done"}
              /\ pc'[t] = "done"
                   => /\ bus'[t][Len(bus'[t])].state = "cancelled"
                      /\ bus'[t][Len(bus'[t])].final
                      /\ finished'[t] ]_vars

\* Both tasks have been cancelled, and the follow-up turn on the first
\* task, which never delegated or answered, ended with state cancelled.
C38_Witness ==
  /\ cancelled = { NewTaskId(t) : t \in 1..2 } \cap store
  /\ NewTaskId(1) \in cancelled
  /\ pc[1] = "done"
  /\ pc[2] = "done"
  /\ req[2].taskId = NewTaskId(1)
  /\ req[2].existing
  /\ intent[2] \in DelegatingIntents
  /\ hist[2].sent = <<>>
  /\ hist[2].gen = 0
  /\ bus[2][Len(bus[2])].state = "cancelled"

\* C39: a turn whose task is in the cancelled set when the classification
\* returns and routing is reached issues no delegation and no completion
\* call; a cancelTask that arrives while a delegation stream or a
\* completion call is in flight leaves the call running (the turn, its
\* stream, its buffer and its events are untouched).
C39_CancelAdvisory ==
  [][ /\ \A t \in Turns :
           ( /\ req[t].taskId \in cancelled
             /\ pc[t] = "classifying"
             /\ pc'[t] # "classifying" )
           => /\ hist'[t].sent = <<>>
              /\ hist'[t].gen = 0
              /\ stream'[t] = NoStream
              /\ pc'[t] = "done"
      /\ \A t \in Turns :
           ( /\ cancelled' # cancelled
             /\ pc[t] \in {"streaming", "answering"} )
           => /\ pc'[t] = pc[t]
              /\ stream'[t] = stream[t]
              /\ buf'[t] = buf[t]
              /\ bus'[t] = bus[t]
              /\ hist'[t] = hist[t] ]_vars

\* A task was cancelled while its delegation stream was being read; the
\* stream was read to its final event, with all its text, and only then
\* did the turn end, with state cancelled.
C39_Witness ==
  \E t \in Turns :
    /\ pc[t] = "done"
    /\ req[t].taskId \in cancelled
    /\ ~req[t].existing
    /\ Len(hist[t].sent) = 1
    /\ hist[t].loopEnd = "final"
    /\ Len(hist[t].seen) >= 3
    /\ bus[t][Len(bus[t])].state = "cancelled"

\* Call k of the GraphQL agent published an artifact with this id.
HasArtifact(k, artifactId) ==
  \E i \in 1..Len(gcalls[k].events) :
    /\ gcalls[k].events[i].kind = "artifact-update"
    /\ gcalls[k].events[i].artifactId = artifactId

\* Call k of the GraphQL agent published a status with this state.
HasState(k, state) ==
  \E i \in 1..Len(gcalls[k].events) :
    /\ gcalls[k].events[i].kind = "status-update"
    /\ gcalls[k].events[i].state = state

\* C31: export requires confirmation.  A call of the GraphQL agent
\* publishes a data-csv artifact only if its text matches the affirmative
\* pattern and an earlier call on the same task published an
\* input-required prompt; a call that publishes the prompt, a first export
\* request among them, publishes no data-csv artifact.
C31_ExportRequiresConfirmation ==
  \A k \in 1..Len(gcalls) :
    /\ HasArtifact(k, "data-csv") =>
         /\ Affirmative(gcalls[k].text)
         /\ \E j \in 1..(k - 1) :
              /\ gcalls[j].taskId = gcalls[k].taskId
              /\ HasState(j, "input-required")
    /\ HasState(k, "input-required") => ~HasArtifact(k, "data-csv")

\* A first export request answered by the prompt alone, then confirmed
\* and exported.
C31_Witness ==
  \E j, k \in 1..Len(gcalls) :
    /\ j < k
    /\ gcalls[j].taskId = gcalls[k].taskId
    /\ \A i \in 1..(j - 1) : gcalls[i].taskId # gcalls[j].taskId
    /\ gcalls[j].text = "export csv"
    /\ HasState(j, "input-required")
    /\ gcalls[j].ended = "open"
    /\ gcalls[k].text = "yes"
    /\ HasArtifact(k, "data-csv")
    /\ gcalls[k].ended = "finished"

\* C32: every reply to the confirmation prompt that matches the decline
\* pattern (is "n" or "no", or contains "cancel" or "stop") is answered
\* "CSV export cancelled." with no data-csv artifact in that call.
C32_DeclineCancelsExport ==
  \A k \in 1..Len(gcalls) :
    ( /\ gcalls[k].pending
      /\ LET cs == toLowerCase(Chars(gcalls[k].text))
         IN  \/ cs \in {Chars("n"), Chars("no")}
             \/ includes(cs, Chars("cancel"))
             \/ includes(cs, Chars("stop")) )
    => /\ gcalls[k].events[Len(gcalls[k].events)].parts = <<"CSV export cancelled.">>
       /\ ~HasArtifact(k, "data-csv")

\* The text of the artifact of call k with this id.
ArtifactText(k, artifactId) ==
  LET i == CHOOSE i \in 1..Len(gcalls[k].events) :
             /\ gcalls[k].events[i].kind = "artifact-update"
             /\ gcalls[k].events[i].artifactId = artifactId
  IN  JoinParts(gcalls[k].events[i].parts)

\* The call that issued the prompt call k answers: the latest earlier call
\* on the task of k that found no confirmation pending.
PromptOf(k) ==
  CHOOSE j \in 1..(k - 1) :
    /\ gcalls[j].taskId = gcalls[k].taskId
    /\ ~gcalls[j].pending
    /\ \A i \in (j + 1)..(k - 1) :
         gcalls[i].taskId = gcalls[k].taskId => gcalls[i].pending

\* The CSV of what the context's memory held when call j began.
CsvAt(j) ==
  LET m == gcalls[j].memory
  IN  CsvOf([ (IF m.shape = "none" THEN mockSites ELSE m) EXCEPT !.shape = "array" ])

\* C33: the CSV exported on confirmation holds the data captured when the
\* prompt was issued for that task, whatever the context's lastResultData
\* has become since.
C33_ExportsCapturedData ==
  \A k \in 1..Len(gcalls) :
    HasArtifact(k, "data-csv") => ArtifactText(k, "data-csv") = CsvAt(PromptOf(k))

\* Between the prompt and the confirming reply another task ran a query
\* in the same context; the export still has the rows of the prompt, not
\* those the memory holds at the confirmation.
C33_Witness ==
  \E j, i, k \in 1..Len(gcalls) :
    /\ j < i /\ i < k
    /\ gcalls[j].taskId = gcalls[k].taskId
    /\ gcalls[i].taskId # gcalls[k].taskId
    /\ gcalls[i].contextId = gcalls[k].contextId
    /\ HasState(j, "input-required")
    /\ HasArtifact(i, "result-json")
    /\ gcalls[k].memory # gcalls[j].memory
    /\ HasArtifact(k, "data-csv")
    /\ ArtifactText(k, "data-csv") = CsvAt(j)
    /\ ArtifactText(k, "data-csv") # CsvAt(k)

\* C34: a chart request in a context where an earlier query succeeded,
\* whether it returned a list of sites or a single site, publishes a
\* chart-data artifact and then a completed status with the text "Chart
\* generated from the data.".
C34_ChartAfterAnyQuery ==
  \A k \in 1..Len(gcalls) :
    ( /\ ~gcalls[k].pending
      /\ gcalls[k].text = "chart"
      /\ gcalls[k].memory # NoData )
    => LET n == Len(gcalls[k].events)
       IN  /\ n >= 2
           /\ gcalls[k].events[n - 1].kind = "artifact-update"
           /\ gcalls[k].events[n - 1].artifactId = "chart-data"
           /\ gcalls[k].events[n].state = "completed"
           /\ gcalls[k].events[n].parts = <<"Chart generated from the data.">>

\* C35: a text that is a GraphQL document (starts with "query" or with
\* "{") is executed as written: the result artifact and the remembered
\* lastResultData are those of the user's own query.
C35_RunsTheUsersQuery ==
  LET k == Len(gcalls)
  IN  ( /\ k > 0
        /\ ~gcalls[k].pending
        /\ \/ startsWith(toLowerCase(Chars(gcalls[k].text)), Chars("query"))
           \/ startsWith(Chars(gcalls[k].text), Chars("{")) )
      => /\ HasArtifact(k, "result-json")
         /\ ArtifactText(k, "result-json") = ResultJsonOf(gcalls[k].text)
         /\ memoryByContext[gcalls[k].contextId] = QueryData(gcalls[k].text)

\* The events of a run are complete: the task event exactly when the task
\* is new, one working status, and once the run is done one final status
\* and finished().
RunInOrder(run) ==
  LET e == run.events
      b == IF run.isNew THEN 1 ELSE 0
  IN  /\ Len(e) = b + (IF run.pc = "done" THEN 2 ELSE 1)
      /\ run.isNew => e[1].kind = "task" /\ e[1].state = "submitted"
      /\ \A i \in (b + 1)..Len(e) : e[i].kind = "status-update"
      /\ e[b + 1].state = "working" /\ ~e[b + 1].final
      /\ run.finished <=> run.pc = "done"
      /\ run.pc = "done" =>
           /\ e[b + 2].final
           /\ e[b + 2].state \in {"cancelled", "completed"}

\* C36: every execute call of the calculator and weather specialists
\* publishes the task event if and only if the task is new, then one
\* working status (final:false), then one final status, cancelled if the
\* task is in the cancelled set at the check and completed otherwise, then
\* finished; a run that has published its final event publishes nothing
\* more.
C36_SpecialistEventOrder ==
  [][ \A r \in 1..Len(runs') :
        runs'[r].agent \in {"calculator", "calculator_002", "weather"} =>
          /\ RunInOrder(runs'[r])
          /\ ( /\ runs'[r].pc = "done"
               /\ r <= Len(runs) => runs[r].pc # "done" )
             => LET last == runs'[r].events[Len(runs'[r].events)]
                IN  last.state =
                      IF runs'[r].taskId \in cancelledTasks[runs'[r].agent]
                      THEN "cancelled" ELSE "completed"
          /\ ( r <= Len(runs) /\ runs[r].pc = "done" ) => runs'[r] = runs[r] ]_vars

\* A weather run on a new task that completed, and a later run on the
\* same task, cancelled in between, that ended cancelled.
C36_Witness ==
  /\ Len(runs) = 2
  /\ runs[1].agent = "weather" /\ runs[2].agent = "weather"
  /\ runs[1].taskId = runs[2].taskId
  /\ runs[1].isNew /\ runs[1].finished
  /\ Len(runs[1].events) = 3
  /\ runs[1].events[3].state = "completed"
  /\ runs[1].events[3].parts = <<"Weather in Paris: clear sky, 21 C">>
  /\ ~runs[2].isNew /\ runs[2].finished
  /\ runs[2].text = "weather in Paris"
  /\ Len(runs[2].events) = 2
  /\ runs[2].events[2].state = "cancelled"

\* The result text of a run of this agent that caught an error with this
\* message.
CarriesError(agent, text, message) ==
  \/ agent \in {"calculator", "calculator_002"} /\ text = "Error: " \o message
  \/ agent = "weather" /\ text = "Error retrieving weather: " \o message
  \/ agent = "graphql" /\ text = "**Error:** " \o message

\* The run caught an error and has returned.
FailedInside(run) == run.pc = "done" /\ run.failure # ""

====
